---- MODULE Spec2Model ----
(***************************************************************************)
(* Frame descriptor and block header codec of lz4_flex                     *)
(* (src/frame/header.rs): FrameInfo::required_size, FrameInfo::read and    *)
(* BlockInfo::read, run on byte buffers.                                   *)
(*                                                                         *)
(* A u8 is an integer in 0..255.  A u32 is a pair <<hi, lo>> of 16-bit     *)
(* halves and a u64 a 4-tuple of 16-bit limbs, most significant first, so  *)
(* that every intermediate value stays inside TLC's integers and the       *)
(* arithmetic wraps at 2^32 as the machine's does.                         *)
(***************************************************************************)
EXTENDS Integers, Sequences, FiniteSets, TLC

----------------------------------------------------------------------------
(* Machine arithmetic *)

RECURSIVE BitAnd(_, _)
BitAnd(a, b) ==
    IF a = 0 \/ b = 0 THEN 0
    ELSE ((a % 2) * (b % 2)) + (2 * BitAnd(a \div 2, b \div 2))

RECURSIVE BitXor(_, _)
BitXor(a, b) ==
    IF a = 0 THEN b
    ELSE IF b = 0 THEN a
    ELSE ((a + b) % 2) + (2 * BitXor(a \div 2, b \div 2))

RECURSIVE Pow2(_)
Pow2(n) == IF n = 0 THEN 1 ELSE 2 * Pow2(n - 1)

\* x >> n on a u8
Shr8(x, n) == x \div Pow2(n)

And32(a, b) == << BitAnd(a[1], b[1]), BitAnd(a[2], b[2]) >>

Xor32(a, b) == << BitXor(a[1], b[1]), BitXor(a[2], b[2]) >>

\* !x on a u32
Not32(a) == << 65535 - a[1], 65535 - a[2] >>

\* wrapping_add on u32
Add32(a, b) ==
    LET lo == a[2] + b[2]
        hi == a[1] + b[1] + (lo \div 65536)
    IN  << hi % 65536, lo % 65536 >>

\* wrapping_sub on u32
Sub32(a, b) == Add32(a, Add32(Not32(b), << 0, 1 >>))

\* (x * y) mod 2^16 for 16-bit x, y
MulLo16(x, y) ==
    ((x % 256) * y + (((x \div 256) * y) % 256) * 256) % 65536

\* wrapping_mul on u32
Mul32(a, b) ==
    LET t0 == (a[2] % 256) * b[2]
        t1 == (a[2] \div 256) * b[2]
        cross == (MulLo16(a[1], b[2]) + MulLo16(a[2], b[1])) % 65536
    IN  Add32(Add32(<< t0 \div 65536, t0 % 65536 >>,
                    << (t1 \div 256) % 65536, (t1 % 256) * 256 >>),
              << cross, 0 >>)

\* rotate_left on u32, 0 < r < 32
Rotl32(a, r) ==
    LET x == IF r >= 16 THEN << a[2], a[1] >> ELSE a
        s == r % 16
    IN  IF s = 0 THEN x
        ELSE << ((x[1] * Pow2(s)) % 65536) + (x[2] \div Pow2(16 - s)),
                ((x[2] * Pow2(s)) % 65536) + (x[1] \div Pow2(16 - s)) >>

\* x >> s on u32, 0 < s <= 16
Shr32(a, s) ==
    IF s = 16 THEN << 0, a[1] >>
    ELSE << a[1] \div Pow2(s),
            (a[2] \div Pow2(s)) + ((a[1] % Pow2(s)) * Pow2(16 - s)) >>

\* a <= b on u32
Le32(a, b) == a[1] < b[1] \/ (a[1] = b[1] /\ a[2] <= b[2])

\* u32::from_le_bytes
U32FromLeBytes(b) == << b[4] * 256 + b[3], b[2] * 256 + b[1] >>

\* u64::from_le_bytes
U64FromLeBytes(b) ==
    << b[8] * 256 + b[7], b[6] * 256 + b[5], b[4] * 256 + b[3], b[2] * 256 + b[1] >>

----------------------------------------------------------------------------
(* twox_hash::XxHash32, the hash FrameInfo::read feeds the header bytes to *)

PRIME32_1 == << \h9E37, \h79B1 >>
PRIME32_2 == << \h85EB, \hCA77 >>
PRIME32_3 == << \hC2B2, \hAE3D >>
PRIME32_4 == << \h27D4, \hEB2F >>
PRIME32_5 == << \h1656, \h67B1 >>

XxhRound(acc, lane) ==
    Mul32(Rotl32(Add32(acc, Mul32(lane, PRIME32_2)), 13), PRIME32_1)

\* the 32-bit little-endian lane at 1-based offset i of data
XxhLane(data, i) == U32FromLeBytes(SubSeq(data, i, i + 3))

\* The accumulators are read in each guard so that every step is evaluated
\* before the next one starts.
RECURSIVE XxhStripes(_, _, _)
XxhStripes(data, i, v) ==
    IF i + 15 > Len(data) \/ v[1][1] + v[2][1] + v[3][1] + v[4][1] < 0 THEN << i, v >>
    ELSE XxhStripes(data, i + 16,
                    << XxhRound(v[1], XxhLane(data, i)),
                       XxhRound(v[2], XxhLane(data, i + 4)),
                       XxhRound(v[3], XxhLane(data, i + 8)),
                       XxhRound(v[4], XxhLane(data, i + 12)) >>)

RECURSIVE XxhTail(_, _, _)
XxhTail(data, i, h) ==
    IF h[1] < 0 THEN h
    ELSE IF i + 3 <= Len(data)
    THEN XxhTail(data, i + 4,
                 Mul32(Rotl32(Add32(h, Mul32(XxhLane(data, i), PRIME32_3)), 17),
                       PRIME32_4))
    ELSE IF i <= Len(data)
    THEN XxhTail(data, i + 1,
                 Mul32(Rotl32(Add32(h, Mul32(<< 0, data[i] >>, PRIME32_5)), 11),
                       PRIME32_1))
    ELSE h

XxhAvalanche(h) ==
    LET h1 == Mul32(Xor32(h, Shr32(h, 15)), PRIME32_2)
        h2 == Mul32(Xor32(h1, Shr32(h1, 13)), PRIME32_3)
    IN  Xor32(h2, Shr32(h2, 16))

\* XxHash32::with_seed(seed), write(data), finish()
XxHash32(seed, data) ==
    LET n == Len(data)
        st == IF n >= 16
              THEN XxhStripes(data, 1,
                              << Add32(Add32(seed, PRIME32_1), PRIME32_2),
                                 Add32(seed, PRIME32_2),
                                 seed,
                                 Sub32(seed, PRIME32_1) >>)
              ELSE << 1, << >> >>
        h0 == IF n >= 16
              THEN Add32(Add32(Rotl32(st[2][1], 1), Rotl32(st[2][2], 7)),
                         Add32(Rotl32(st[2][3], 12), Rotl32(st[2][4], 18)))
              ELSE Add32(seed, PRIME32_5)
    IN  XxhAvalanche(XxhTail(data, st[1], Add32(h0, << n \div 65536, n % 65536 >>)))

----------------------------------------------------------------------------
(* mod flags *)

\* a version mask that looks at bit 7 only
VERSION_MASK_Bit7 == \b10000000

VERSION_MASK == \b11000000
SUPPORTED_VERSION == \b11000000
BLOCK_SIZE_MASK == \b01110000
BLOCK_SIZE_MASK_RSHIFT == 4

INDEPENDENT_BLOCKS == \b00100000
BLOCK_CHECKSUMS == \b00010000
CONTENT_SIZE == \b00001000
CONTENT_CHECKSUM == \b00000100
DICTIONARY_ID == \b00000001

UNCOMPRESSED_SIZE == << \hF000, \h0000 >>

MAGIC_NUMBER == << \h184D, \h2204 >>
SKIPPABLE_MAGIC == [start |-> << \h184D, \h2A50 >>, end |-> << \h184D, \h2A5F >>]

\* RangeInclusive::contains
RangeContains(r, v) == Le32(r.start, v) /\ Le32(v, r.end)

----------------------------------------------------------------------------
(* Values returned to the caller.  An Option is a sequence of length 0 or 1. *)

None == << >>
Some(v) == << v >>

Running == [tag |-> "Running", kind |-> "", val |-> << >>, info |-> None]
Ok(kind, val) == [tag |-> "Ok", kind |-> kind, val |-> val, info |-> None]
OkFrameInfo(fi) == [tag |-> "Ok", kind |-> "FrameInfo", val |-> << >>, info |-> Some(fi)]
Err(kind, val) == [tag |-> "Err", kind |-> kind, val |-> val, info |-> None]
Panic(kind) == [tag |-> "Panic", kind |-> kind, val |-> << >>, info |-> None]

\* <&[u8] as Read>::read_exact(&mut buffer) with buffer.len() = n
ReadExact(input, n) ==
    IF Len(input) >= n
    THEN [ok |-> TRUE, buffer |-> SubSeq(input, 1, n),
          input |-> SubSeq(input, n + 1, Len(input))]
    ELSE [ok |-> FALSE, buffer |-> << >>, input |-> input]

----------------------------------------------------------------------------
(* FrameInfo::required_size *)

required_size(input) ==
    IF Len(input) < 7 THEN Ok("usize", << 7 >>)
    ELSE
      LET magic == ReadExact(input, 4)
          magic_num == U32FromLeBytes(magic.buffer)
          rest == magic.input
      IN  IF magic_num # MAGIC_NUMBER THEN Err("WrongMagicNumber", << >>)
          ELSE IF RangeContains(SKIPPABLE_MAGIC, magic_num) THEN Ok("usize", << 8 >>)
          ELSE IF Len(rest) <= 4 THEN Panic("index out of bounds")
          ELSE Ok("usize",
                  << 7 + (IF BitAnd(rest[5], CONTENT_SIZE) # 0 THEN 8 ELSE 0)
                       + (IF BitAnd(rest[5], DICTIONARY_ID) # 0 THEN 4 ELSE 0) >>)

----------------------------------------------------------------------------
(* BlockInfo::read *)

BlockInfo_read(input) ==
    LET size_buffer == ReadExact(input, 4)
        size == U32FromLeBytes(size_buffer.buffer)
    IN  IF ~size_buffer.ok THEN Err("IoError", << >>)
        ELSE IF size = << 0, 0 >> THEN Ok("EndMark", << >>)
        ELSE IF And32(size, UNCOMPRESSED_SIZE) # << 0, 0 >>
        THEN Ok("Uncompressed", And32(size, Not32(UNCOMPRESSED_SIZE)))
        ELSE Ok("Compressed", size)

----------------------------------------------------------------------------
(* FrameInfo::read: the locals of one call, and one operator per section    *)
(* of the function.  pc names the section to run next; once result is no    *)
(* longer Running the call has returned from the section pc names.          *)

Unset == "unset"

Frame(input) ==
    [pc |-> "magic", original_input |-> input, input |-> input,
     magic_num |-> << 0, 0 >>, flag_byte |-> 0, bd_byte |-> 0,
     block_mode |-> Unset, content_checksum |-> FALSE, block_checksums |-> FALSE,
     block_size |-> Unset, content_size |-> None, dict_id |-> None,
     expected_checksum |-> 0, hashed |-> << >>, header_hash |-> 0,
     result |-> Running]

Return(f, r) == [f EXCEPT !.result = r]

\* 4 byte Magic, and the skippable-frame branch
ReadMagic(f) ==
    LET buffer == ReadExact(f.input, 4)
        magic_num == U32FromLeBytes(buffer.buffer)
        len == ReadExact(buffer.input, 4)
    IN  IF ~buffer.ok THEN Return(f, Err("IoError", << >>))
        ELSE IF magic_num # MAGIC_NUMBER
        THEN Return([f EXCEPT !.input = buffer.input, !.magic_num = magic_num],
                    Err("WrongMagicNumber", << >>))
        ELSE IF RangeContains(SKIPPABLE_MAGIC, magic_num)
        THEN IF ~len.ok
             THEN Return([f EXCEPT !.input = buffer.input, !.magic_num = magic_num],
                         Err("IoError", << >>))
             ELSE Return([f EXCEPT !.input = len.input, !.magic_num = magic_num],
                         Err("SkippableFrame", U32FromLeBytes(len.buffer)))
        ELSE [f EXCEPT !.input = buffer.input, !.magic_num = magic_num, !.pc = "fixed"]

\* fixed size section: flag byte, block-descriptor byte, version check, flags
ReadFixed(f) ==
    LET buffer == ReadExact(f.input, 2)
        flag_byte == buffer.buffer[1]
        bd_byte == buffer.buffer[2]
    IN  IF ~buffer.ok THEN Return(f, Err("IoError", << >>))
        ELSE IF BitAnd(flag_byte, VERSION_MASK) # SUPPORTED_VERSION
        THEN Return([f EXCEPT !.input = buffer.input, !.flag_byte = flag_byte,
                              !.bd_byte = bd_byte],
                    Err("UnsupportedVersion", << BitAnd(flag_byte, VERSION_MASK) >>))
        ELSE [f EXCEPT !.input = buffer.input, !.flag_byte = flag_byte,
                       !.bd_byte = bd_byte,
                       !.block_mode = IF BitAnd(flag_byte, INDEPENDENT_BLOCKS) # 0
                                      THEN "Independent" ELSE "Linked",
                       !.content_checksum = BitAnd(flag_byte, CONTENT_CHECKSUM) # 0,
                       !.block_checksums = BitAnd(flag_byte, BLOCK_CHECKSUMS) # 0,
                       !.pc = "block_size"]

\* bd_byte & flags::BLOCK_SIZE_MASK >> flags::BLOCK_SIZE_MASK_RSHIFT:
\* in Rust >> binds tighter than &
BlockSizeCode(bd_byte) ==
    BitAnd(bd_byte, Shr8(BLOCK_SIZE_MASK, BLOCK_SIZE_MASK_RSHIFT))

ReadBlockSize(f) ==
    LET i == BlockSizeCode(f.bd_byte)
    IN  IF i \in 0..3 THEN Return(f, Err("UnimplementedBlocksize", << i >>))
        ELSE IF i = 4 THEN [f EXCEPT !.block_size = "Max64KB", !.pc = "content_size"]
        ELSE IF i = 5 THEN [f EXCEPT !.block_size = "Max256KB", !.pc = "content_size"]
        ELSE IF i = 6 THEN [f EXCEPT !.block_size = "Max1MB", !.pc = "content_size"]
        ELSE IF i = 7 THEN [f EXCEPT !.block_size = "Max4MB", !.pc = "content_size"]
        ELSE Return(f, Panic("unreachable"))

\* var len section: content size
ReadContentSize(f) ==
    LET buffer == ReadExact(f.input, 8)
    IN  IF BitAnd(f.flag_byte, CONTENT_SIZE) = 0 THEN [f EXCEPT !.pc = "dict_id"]
        ELSE IF ~buffer.ok THEN Return(f, Panic("unwrap on Err"))
        ELSE [f EXCEPT !.input = buffer.input,
                       !.content_size = Some(U64FromLeBytes(buffer.buffer)),
                       !.pc = "dict_id"]

\* var len section: dictionary id
ReadDictId(f) ==
    LET buffer == ReadExact(f.input, 4)
    IN  IF BitAnd(f.flag_byte, DICTIONARY_ID) = 0 THEN [f EXCEPT !.pc = "checksum"]
        ELSE IF ~buffer.ok THEN Return(f, Err("IoError", << >>))
        ELSE [f EXCEPT !.input = buffer.input,
                       !.dict_id = Some(U32FromLeBytes(buffer.buffer)),
                       !.pc = "checksum"]

\* 1 byte header checksum
ReadChecksum(f) ==
    LET buffer == ReadExact(f.input, 1)
    IN  IF ~buffer.ok THEN Return(f, Err("IoError", << >>))
        ELSE [f EXCEPT !.input = buffer.input,
                       !.expected_checksum = buffer.buffer[1],
                       !.pc = "verify"]

\* hashing the whole buffer instead of the consumed prefix
HashedRange_WholeInput(f) == f.original_input

\* &original_input[..original_input.len() - input.len()]
HashedRange(f) ==
    SubSeq(f.original_input, 1, Len(f.original_input) - Len(f.input))

\* (hasher.finish() >> 8) as u8
HeaderHash(data) == Shr32(XxHash32(<< 0, 0 >>, data), 8)[2] % 256

VerifyChecksum(f) ==
    LET hashed == HashedRange(f)
        header_hash == HeaderHash(hashed)
        g == [f EXCEPT !.hashed = hashed, !.header_hash = header_hash]
    IN  IF header_hash # f.expected_checksum
        THEN Return(g, Err("HeaderChecksumError", << >>))
        ELSE Return(g, OkFrameInfo([block_mode |-> f.block_mode,
                                    block_size |-> f.block_size,
                                    content_size |-> f.content_size,
                                    dict_id |-> f.dict_id,
                                    block_checksums |-> f.block_checksums,
                                    content_checksum |-> f.content_checksum]))

Returned(f) == f.result.tag # "Running"

\* the section pc names
Section(f) ==
    CASE f.pc = "magic" -> ReadMagic(f)
      [] f.pc = "fixed" -> ReadFixed(f)
      [] f.pc = "block_size" -> ReadBlockSize(f)
      [] f.pc = "content_size" -> ReadContentSize(f)
      [] f.pc = "dict_id" -> ReadDictId(f)
      [] f.pc = "checksum" -> ReadChecksum(f)
      [] f.pc = "verify" -> VerifyChecksum(f)

RECURSIVE RunFrame(_)
RunFrame(f) == IF Returned(f) THEN f ELSE RunFrame(Section(f))

\* FrameInfo::read as a function of its argument
FrameInfo_read(input) == RunFrame(Frame(input)).result

----------------------------------------------------------------------------
(* The header layout the format prescribes for a FrameInfo (the encoder is  *)
(* not part of header.rs): magic, flag byte, block-descriptor byte with the *)
(* size code in bits 6-4, optional fields, checksum over all bytes before.  *)

U32ToLeBytes(v) == << v[2] % 256, v[2] \div 256, v[1] % 256, v[1] \div 256 >>

U64ToLeBytes(v) ==
    U32ToLeBytes(<< v[3], v[4] >>) \o U32ToLeBytes(<< v[1], v[2] >>)

\* enum BlockSize discriminants
BlockSizeTag(code) ==
    CASE code = 4 -> "Max64KB" [] code = 5 -> "Max256KB"
      [] code = 6 -> "Max1MB" [] code = 7 -> "Max4MB"

BlockSizes == { BlockSizeTag(c) : c \in 4..7 }

BlockSizeValue(bs) == CHOOSE c \in 4..7 : BlockSizeTag(c) = bs

EncodeFlagByte(x) ==
    SUPPORTED_VERSION
    + (IF x.block_mode = "Independent" THEN INDEPENDENT_BLOCKS ELSE 0)
    + (IF x.block_checksums THEN BLOCK_CHECKSUMS ELSE 0)
    + (IF x.content_size # None THEN CONTENT_SIZE ELSE 0)
    + (IF x.content_checksum THEN CONTENT_CHECKSUM ELSE 0)
    + (IF x.dict_id # None THEN DICTIONARY_ID ELSE 0)

EncodeBdByte(x) == BlockSizeValue(x.block_size) * 16

EncodeBody(x) ==
    U32ToLeBytes(MAGIC_NUMBER) \o << EncodeFlagByte(x), EncodeBdByte(x) >>
    \o (IF x.content_size # None THEN U64ToLeBytes(x.content_size[1]) ELSE << >>)
    \o (IF x.dict_id # None THEN U32ToLeBytes(x.dict_id[1]) ELSE << >>)

Encode(x) == EncodeBody(x) \o << HeaderHash(EncodeBody(x)) >>

----------------------------------------------------------------------------
(* Buffers handed to the three functions *)

\* trailing bytes that may follow a header in the caller's buffer
MaxExtra == 1

RECURSIVE SeqsUpTo(_, _)
SeqsUpTo(S, n) ==
    IF n = 0 THEN { << >> }
    ELSE LET shorter == SeqsUpTo(S, n - 1)
         IN  shorter \cup { t \o << b >> : t \in { u \in shorter : Len(u) = n - 1 }, b \in S }

Extras == SeqsUpTo({ \h00, \hFF }, MaxExtra)

Prefixes(b) == { SubSeq(b, 1, k) : k \in 0..Len(b) }

ContentSizes == { None, Some(<< 0, 0, 0, 100 >>) }
DictIds == { None, Some(<< \h0102, \h0304 >>) }

FrameInfos ==
    [block_mode : { "Independent", "Linked" }, block_size : BlockSizes,
     content_size : ContentSizes, dict_id : DictIds,
     block_checksums : BOOLEAN, content_checksum : BOOLEAN]

Encodings == { << x, Encode(x) >> : x \in FrameInfos }

StdMagicBytes == U32ToLeBytes(MAGIC_NUMBER)

\* magic numbers at and around the skippable range
OtherMagicBytes ==
    { << \h50, \h2A, \h4D, \h18 >>, << \h5F, \h2A, \h4D, \h18 >>,
      << \h4F, \h2A, \h4D, \h18 >>, << \h60, \h2A, \h4D, \h18 >>,
      << \h04, \h22, \h4D, \h19 >> }

\* a header with the given flag and block-descriptor bytes, the optional
\* fields the flag byte announces, and checksum byte hc
RawHeader(flag, bd, hc) ==
    StdMagicBytes \o << flag, bd >>
    \o (IF BitAnd(flag, CONTENT_SIZE) # 0 THEN << 100, 0, 0, 0, 0, 0, 0, 0 >> ELSE << >>)
    \o (IF BitAnd(flag, DICTIONARY_ID) # 0 THEN << 4, 3, 2, 1 >> ELSE << >>)
    \o << hc >>

EncodedInputs == { e[2] \o t : e \in Encodings, t \in Extras }

ChecksumInputs ==
    { RawHeader(flag, bd, hc) \o t :
        flag \in { \hE0, \hC8, \hE1, \hDD }, bd \in { \h04, \h77 },
        hc \in 0..255, t \in Extras }

BdInputs ==
    { RawHeader(flag, bd, 0) : flag \in { \hE0, \hC9 }, bd \in 0..255 }

VersionInputs ==
    { StdMagicBytes \o << flag, bd >> \o t :
        flag \in 0..255, bd \in { \h40, \h07, \h00 },
        t \in { << >>, << 0 >>, << 0, 1, 2, 3, 4, 5, 6, 7, 8, 9, 10, 11, 12 >> } }

TruncatedInputs ==
    UNION { Prefixes(RawHeader(flag, bd, 0)) :
              flag \in { \hE0, \hC8, \hE1, \hDD }, bd \in { \h40, \h04, \h77 } }

SkippableInputs ==
    UNION { Prefixes(m \o << a, b, 0, c >>) \cup { m \o << a, b, 0, c >> \o t : t \in Extras } :
              m \in OtherMagicBytes, a \in { 0, 1, \hFF }, b \in { 0, \hE8 },
              c \in { 0, \h80 } }

BlockInputs ==
    UNION { Prefixes(<< a, b, c, d >>) \cup { << a, b, c, d >> \o t : t \in Extras } :
              a \in { 0, 1, \hFF }, b \in { 0, \hFF }, c \in { 0, \hFF },
              d \in { \h00, \h01, \h0F, \h10, \h70, \h7F, \h80, \h8F, \hF0, \hFF } }

Inputs ==
    EncodedInputs \cup ChecksumInputs \cup BdInputs \cup VersionInputs
    \cup TruncatedInputs \cup SkippableInputs \cup BlockInputs

----------------------------------------------------------------------------
(* The state machine: a caller picks a buffer and calls one of the three    *)
(* functions on it; FrameInfo::read runs section by section.                *)

VARIABLES buf, fn, frame

vars == << buf, fn, frame >>

Init ==
    /\ buf \in Inputs
    /\ fn = "none"
    /\ frame = Frame(buf)

CallRequiredSize ==
    /\ fn = "none"
    /\ fn' = "required_size"
    /\ frame' = Return(frame, required_size(buf))
    /\ UNCHANGED buf

CallBlockInfoRead ==
    /\ fn = "none"
    /\ fn' = "BlockInfo::read"
    /\ frame' = Return(frame, BlockInfo_read(buf))
    /\ UNCHANGED buf

CallFrameInfoRead ==
    /\ fn = "none"
    /\ fn' = "FrameInfo::read"
    /\ frame' = Frame(buf)
    /\ UNCHANGED buf

InSection(pc) == fn = "FrameInfo::read" /\ ~Returned(frame) /\ frame.pc = pc

MagicSection ==
    InSection("magic") /\ frame' = ReadMagic(frame) /\ UNCHANGED << buf, fn >>

FixedSection ==
    InSection("fixed") /\ frame' = ReadFixed(frame) /\ UNCHANGED << buf, fn >>

BlockSizeSection ==
    InSection("block_size") /\ frame' = ReadBlockSize(frame) /\ UNCHANGED << buf, fn >>

ContentSizeSection ==
    InSection("content_size") /\ frame' = ReadContentSize(frame) /\ UNCHANGED << buf, fn >>

DictIdSection ==
    InSection("dict_id") /\ frame' = ReadDictId(frame) /\ UNCHANGED << buf, fn >>

ChecksumSection ==
    InSection("checksum") /\ frame' = ReadChecksum(frame) /\ UNCHANGED << buf, fn >>

VerifySection ==
    InSection("verify") /\ frame' = VerifyChecksum(frame) /\ UNCHANGED << buf, fn >>

Next ==
    \/ CallRequiredSize
    \/ CallBlockInfoRead
    \/ CallFrameInfoRead
    \/ MagicSection
    \/ FixedSection
    \/ BlockSizeSection
    \/ ContentSizeSection
    \/ DictIdSection
    \/ ChecksumSection
    \/ VerifySection

Spec == Init /\ [][Next]_vars

----------------------------------------------------------------------------
(* Properties *)

Done(f) == fn = f /\ Returned(frame)

HasStdMagic(b) == Len(b) >= 4 /\ SubSeq(b, 1, 4) = << \h04, \h22, \h4D, \h18 >>

\* first 4 bytes, little-endian, in 0x184D2A50..=0x184D2A5F
HasSkippableMagic(b) ==
    /\ Len(b) >= 4
    /\ b[4] = \h18 /\ b[3] = \h4D /\ b[2] = \h2A
    /\ b[1] \in 80..95

\* bit k of byte b
Bit(b, k) == (b \div Pow2(k)) % 2

\* bits 7-6 of the flag byte, in place
VersionBits(flag) == (flag \div 64) * 64

\* the header length the flag byte announces: 7, 11, 15 or 19
HeaderLen(b) ==
    IF HasSkippableMagic(b) THEN 8 ELSE 7 + 8 * Bit(b[5], 3) + 4 * Bit(b[5], 0)

\* C1: reading the prescribed encoding of any valid FrameInfo x returns Ok
\* with a FrameInfo equal to x in every field.
C1_RoundTrip ==
    \A e \in Encodings :
        (Done("FrameInfo::read") /\ buf = e[2])
            => (frame.result.tag = "Ok" /\ frame.result.info = Some(e[1]))

\* C2: in a header that passes the magic and version checks, the block-size
\* code is bits 6-4 of the block-descriptor byte: codes 0-3 fail with
\* UnimplementedBlocksize(code), codes 4-7 select Max64KB..Max4MB.
C2_BlockSizeBits ==
    (Done("FrameInfo::read") /\ Len(buf) >= 6 /\ HasStdMagic(buf)
        /\ VersionBits(buf[5]) = SUPPORTED_VERSION)
    => LET code == (buf[6] \div 16) % 8
       IN  IF code \in 0..3
           THEN frame.result.kind = "UnimplementedBlocksize"
                /\ frame.result.val = << code >>
           ELSE frame.result.kind # "UnimplementedBlocksize"
                /\ frame.block_size = BlockSizeTag(code)

\* C3: the header hash covers exactly the bytes before the checksum byte
\* (6, 10, 14 or 18 of them), and the call fails with HeaderChecksumError
\* exactly when byte 1 of that hash differs from the checksum byte.
C3_ChecksumRange ==
    (Done("FrameInfo::read") /\ frame.pc = "verify")
    => LET n == HeaderLen(buf) - 1
       IN  /\ frame.hashed = SubSeq(buf, 1, n)
           /\ (frame.result.kind = "HeaderChecksumError")
                <=> (HeaderHash(SubSeq(buf, 1, n)) # buf[n + 1])

\* C4: a 4-byte record v decodes to EndMark if v = 0, to Uncompressed(v with
\* bit 31 cleared) if bit 31 is set, and to Compressed(v) otherwise.
C4_BlockClassification ==
    (Done("BlockInfo::read") /\ Len(buf) >= 4)
    => IF SubSeq(buf, 1, 4) = << 0, 0, 0, 0 >>
       THEN frame.result = Ok("EndMark", << >>)
       ELSE IF buf[4] >= 128
       THEN frame.result =
              Ok("Uncompressed", << (buf[4] - 128) * 256 + buf[3], buf[2] * 256 + buf[1] >>)
       ELSE frame.result =
              Ok("Compressed", << buf[4] * 256 + buf[3], buf[2] * 256 + buf[1] >>)

\* C5: a buffer of at least 8 bytes with a skippable magic makes read fail
\* with SkippableFrame(L), L the little-endian value of bytes 4..8.
C5_SkippableDetected ==
    (Done("FrameInfo::read") /\ Len(buf) >= 8 /\ HasSkippableMagic(buf))
    => frame.result =
         Err("SkippableFrame", << buf[8] * 256 + buf[7], buf[6] * 256 + buf[5] >>)

\* C6: on a buffer of at least 7 bytes with the standard magic,
\* required_size returns Ok(7 + 8c + 4d), c and d being bits 3 and 0 of the
\* flag byte at offset 4.
C6_RequiredSizeStandard ==
    (Done("required_size") /\ Len(buf) >= 7 /\ HasStdMagic(buf))
    => frame.result = Ok("usize", << 7 + 8 * Bit(buf[5], 3) + 4 * Bit(buf[5], 0) >>)

\* C7: on a buffer of at least 7 bytes with a skippable magic, required_size
\* returns Ok(8).
C7_RequiredSizeSkippable ==
    (Done("required_size") /\ Len(buf) >= 7 /\ HasSkippableMagic(buf))
    => frame.result = Ok("usize", << 8 >>)

\* the section read returned from found fewer bytes than its field needs
ShortRead ==
    LET c == Bit(frame.flag_byte, 3)
        d == Bit(frame.flag_byte, 0)
    IN  \/ frame.pc = "magic" /\ Len(buf) < 4
        \/ frame.pc = "fixed" /\ Len(buf) < 6
        \/ frame.pc = "content_size" /\ c = 1 /\ Len(buf) < 14
        \/ frame.pc = "dict_id" /\ d = 1 /\ Len(buf) < 10 + 8 * c
        \/ frame.pc = "checksum" /\ Len(buf) < 7 + 8 * c + 4 * d

\* C8: a field read that finds too few bytes makes read return IoError, and
\* read never panics.
C8_TruncationIsIoError ==
    Done("FrameInfo::read")
    => /\ frame.result.tag # "Panic"
       /\ ShortRead => frame.result.kind = "IoError"

C10_PrefixDeterminism ==
    (Done("FrameInfo::read") /\ Len(buf) >= 5 /\ Len(buf) >= HeaderLen(buf))
    => frame.result = FrameInfo_read(SubSeq(buf, 1, HeaderLen(buf)))

\* a header that verifies, followed by a further byte
C10_Witness ==
    /\ Done("FrameInfo::read")
    /\ Len(buf) >= 5 /\ Len(buf) > HeaderLen(buf)
    /\ frame.result.tag = "Ok"

====
